---- MODULE Spec2Model ----
(***************************************************************************)
(* Model of the position-intents crate (src/src/lib.rs): the AmountSpec    *)
(* merge algebra, the PositionIntentBuilder and its build() validation,    *)
(* and the serde encoding of a built PositionIntent.                       *)
(***************************************************************************)
EXTENDS Integers, Sequences, FiniteSets, TLC

VARIABLES left, right, merged, swapped,
          builder, state, outcome, encoded, decoded, calls

vars == <<left, right, merged, swapped, builder, state, outcome, encoded, decoded, calls>>
mergeVars == <<left, right, merged, swapped>>
builderVars == <<builder, state, outcome, encoded, decoded, calls>>

(***************************************************************************)
(* rust_decimal::Decimal (lib.rs line 2).  A Decimal is a sign and a       *)
(* 96-bit unsigned magnitude (and a scale; every payload used here has     *)
(* scale 0, as Decimal::new(n, 0) in the tests and Decimal::MAX/MIN).      *)
(* The magnitude is kept at its real width as NumLimbs little-endian limbs *)
(* of LimbBits bits each.                                                  *)
(***************************************************************************)
LimbBits == 16
NumLimbs == 6
LimbBase == 2 ^ LimbBits

\* How many values next to zero and next to the extremes are enumerated.
MaxSmall == 1

\* The magnitude of a small natural number k < LimbBase.
SmallMag(k) == [i \in 1..NumLimbs |-> IF i = 1 THEN k ELSE 0]

\* The magnitude 2^96 - 1 - k, for small k.
TopMag(k) == [i \in 1..NumLimbs |-> IF i = 1 THEN LimbBase - 1 - k ELSE LimbBase - 1]

IsZeroMag(m) == \A i \in DOMAIN m : m[i] = 0

\* Carry into limb i of a + b.
RECURSIVE CarryIn(_, _, _)
CarryIn(a, b, i) ==
    IF i = 1 THEN 0 ELSE (a[i-1] + b[i-1] + CarryIn(a, b, i-1)) \div LimbBase

AddMag(a, b) == [i \in DOMAIN a |-> (a[i] + b[i] + CarryIn(a, b, i)) % LimbBase]

AddOverflows(a, b) == CarryIn(a, b, Len(a) + 1) # 0

\* Borrow into limb i of a - b.
RECURSIVE BorrowIn(_, _, _)
BorrowIn(a, b, i) ==
    IF i = 1 THEN 0 ELSE IF a[i-1] - b[i-1] - BorrowIn(a, b, i-1) < 0 THEN 1 ELSE 0

\* a - b for a >= b.
SubMag(a, b) == [i \in DOMAIN a |-> (a[i] - b[i] - BorrowIn(a, b, i) + LimbBase) % LimbBase]

\* a < b on magnitudes.
LessMag(a, b) == BorrowIn(a, b, Len(a) + 1) = 1

Dec(neg, mag) == [neg |-> neg, mag |-> mag]

\* Decimal::new(n, 0) for a small integer n.
DecimalNew(n) == IF n < 0 THEN Dec(TRUE, SmallMag(-n)) ELSE Dec(FALSE, SmallMag(n))

\* impl PartialEq/PartialOrd for Decimal: comparison by numeric value.
DecimalEq(x, y) ==
    /\ x.mag = y.mag
    /\ (x.neg = y.neg \/ IsZeroMag(x.mag))

\* Signed sum of two sign/magnitude numbers whose magnitudes have the same
\* number of limbs; the magnitude carry out of the top limb is dropped.
SignedAdd(x, y) ==
    IF x.neg = y.neg THEN Dec(x.neg, AddMag(x.mag, y.mag))
    ELSE IF LessMag(x.mag, y.mag) THEN Dec(y.neg, SubMag(y.mag, x.mag))
    ELSE Dec(x.neg, SubMag(x.mag, y.mag))

\* Decimal::checked_add at scale 0: None when the sum needs more than 96 bits.
NoDecimal == [none |-> TRUE]

checked_add(x, y) ==
    IF x.neg = y.neg /\ AddOverflows(x.mag, y.mag) THEN NoDecimal
    ELSE SignedAdd(x, y)

(***************************************************************************)
(* AmountSpec (lib.rs 19-26) and AmountSpec::merge (lib.rs 38-48).         *)
(***************************************************************************)
Dollars(x) == [variant |-> "Dollars", payload |-> x]
Shares(x) == [variant |-> "Shares", payload |-> x]
Percent(x) == [variant |-> "Percent", payload |-> x]
Zero == [variant |-> "Zero"]

Numeric(v, x) == [variant |-> v, payload |-> x]

NumericVariants == {"Dollars", "Shares", "Percent"}

\* derive(PartialEq) for AmountSpec.
AmountEq(a, b) ==
    /\ a.variant = b.variant
    /\ a.variant # "Zero" => DecimalEq(a.payload, b.payload)

Ok(v) == [kind |-> "Ok", val |-> v]
Err(e) == [kind |-> "Err", err |-> e]
Panic(msg) == [kind |-> "Panic", msg |-> msg]

\* The error built with its operands in the other order.
IncompatibleAmountErrorSwapped(l, r) ==
    [error |-> "IncompatibleAmountError", left |-> r, right |-> l]

IncompatibleAmountError(l, r) == [error |-> "IncompatibleAmountError", left |-> l, right |-> r]

\* `x + y` on Decimal (impl Add): checked_add, panicking on None.
\* The value is the Result of the enclosing arm Ok(variant(x + y)).
AddArm(v, x, y) ==
    IF checked_add(x, y) = NoDecimal THEN Panic("Addition overflowed")
    ELSE Ok(Numeric(v, checked_add(x, y)))

\* merge without the `(x, Zero) => Ok(x)` arm.
mergeWithoutRightZero(self, other) ==
    IF self.variant = other.variant /\ self.variant # "Zero"
        THEN AddArm(self.variant, self.payload, other.payload)
    ELSE IF self.variant = "Zero" THEN Ok(other)
    ELSE Err(IncompatibleAmountError(self, other))

merge(self, other) ==
    IF self.variant = "Dollars" /\ other.variant = "Dollars"
        THEN AddArm("Dollars", self.payload, other.payload)
    ELSE IF self.variant = "Shares" /\ other.variant = "Shares"
        THEN AddArm("Shares", self.payload, other.payload)
    ELSE IF self.variant = "Percent" /\ other.variant = "Percent"
        THEN AddArm("Percent", self.payload, other.payload)
    ELSE IF self.variant = "Zero" /\ other.variant = "Zero" THEN Ok(Zero)
    ELSE IF self.variant = "Zero" THEN Ok(other)
    ELSE IF other.variant = "Zero" THEN Ok(self)
    ELSE Err(IncompatibleAmountError(self, other))

(***************************************************************************)
(* Inputs.                                                                 *)
(***************************************************************************)
Decimals ==
    {DecimalNew(n) : n \in (-MaxSmall)..MaxSmall}
        \cup {Dec(s, TopMag(k)) : s \in BOOLEAN, k \in 0..MaxSmall}

AmountSpecs == {Numeric(v, x) : v \in NumericVariants, x \in Decimals} \cup {Zero}

NoResult == [kind |-> "None"]

(***************************************************************************)
(* TickerSpec (lib.rs 51-62), UpdatePolicy (lib.rs 28-35), Option.         *)
(* Strings are sequences of characters.                                    *)
(***************************************************************************)
Ticker(s) == [variant |-> "Ticker", name |-> s]
All == [variant |-> "All"]

UpdatePolicies == {"Retain", "RetainLong", "RetainShort", "Update"}

None == [some |-> FALSE]
Some(x) == [some |-> TRUE, val |-> x]

\* Option<Decimal> equality goes through Decimal's PartialEq.
OptDecimalEq(a, b) ==
    /\ a.some = b.some
    /\ a.some => DecimalEq(a.val, b.val)

(***************************************************************************)
(* PositionIntent::builder (lib.rs 172-191).                               *)
(***************************************************************************)
PositionIntentBuilder(strategy, ticker, amount) ==
    [strategy |-> strategy,
     sub_strategy |-> None,
     ticker |-> ticker,
     amount |-> amount,
     update_policy |-> "Update",
     decision_price |-> None,
     limit_price |-> None,
     stop_price |-> None,
     before |-> None,
     after |-> None]

(***************************************************************************)
(* The setters (lib.rs 79-112).                                            *)
(***************************************************************************)
sub_strategy(self, s) == [self EXCEPT !.sub_strategy = Some(s)]

decision_price(self, p) == [self EXCEPT !.decision_price = Some(p)]

\* limit_price writing the stop_price field.
limit_priceIntoStop(self, p) == [self EXCEPT !.stop_price = Some(p)]

limit_price(self, p) == [self EXCEPT !.limit_price = Some(p)]

stop_price(self, p) == [self EXCEPT !.stop_price = Some(p)]

before(self, t) == [self EXCEPT !.before = Some(t)]

after(self, t) == [self EXCEPT !.after = Some(t)]

update_policy(self, policy) == [self EXCEPT !.update_policy = policy]

(***************************************************************************)
(* PositionIntentBuilder::build (lib.rs 114-139).  id is the value of      *)
(* Uuid::new_v4() and now the value of Utc::now().                         *)
(***************************************************************************)
InvalidBeforeAfter(b, a) == [error |-> "InvalidBeforeAfter", before |-> b, after |-> a]
InvalidCombination == [error |-> "InvalidCombination"]

\* The window test with the comparison turned round.
WindowRejectedGreater(self) ==
    /\ self.before.some
    /\ self.after.some
    /\ self.before.val > self.after.val

\* self.before.zip(self.after) is Some and before < after (lib.rs 115-116).
WindowRejected(self) ==
    /\ self.before.some
    /\ self.after.some
    /\ self.before.val < self.after.val

\* The match with only the Dollars arm.
CombinationRejectedDollarsOnly(ticker, amount) ==
    ticker.variant = "All" /\ amount.variant = "Dollars"

\* The match on (ticker, amount) (lib.rs 120-124).
CombinationRejected(ticker, amount) ==
    \/ ticker.variant = "All" /\ amount.variant = "Dollars"
    \/ ticker.variant = "All" /\ amount.variant = "Shares"

PositionIntent(self, id, now) ==
    [id |-> id,
     strategy |-> self.strategy,
     sub_strategy |-> self.sub_strategy,
     timestamp |-> now,
     ticker |-> self.ticker,
     amount |-> self.amount,
     update_policy |-> self.update_policy,
     decision_price |-> self.decision_price,
     limit_price |-> self.limit_price,
     stop_price |-> self.stop_price,
     before |-> self.before,
     after |-> self.after]

build(self, id, now) ==
    IF WindowRejected(self)
        THEN Err(InvalidBeforeAfter(self.before.val, self.after.val))
    ELSE IF CombinationRejected(self.ticker, self.amount)
        THEN Err(InvalidCombination)
    ELSE Ok(PositionIntent(self, id, now))

\* Receivers taken by reference: the builder stays usable.
CanCallAlways(st) == TRUE

\* The setters and build take `self` by value (lib.rs 79, 114): a builder
\* that has been moved into build() cannot be the receiver of another call.
CanCall(st) == st = "Building"

(***************************************************************************)
(* Text forms of the scalar types, as the serde impls of the field types   *)
(* produce and parse them (derive(Serialize, Deserialize), lib.rs 142).    *)
(***************************************************************************)
DigitChars == <<"0", "1", "2", "3", "4", "5", "6", "7", "8", "9",
                "a", "b", "c", "d", "e", "f">>

IsDigit(c, base) == \E d \in 1..base : DigitChars[d] = c

DigitVal(c) == (CHOOSE d \in 1..Len(DigitChars) : DigitChars[d] = c) - 1

\* Remainder of the limbs i..Len(a) of a, taken as a number, modulo 10.
RECURSIVE Rem10(_, _)
Rem10(a, i) == IF i > Len(a) THEN 0 ELSE (Rem10(a, i + 1) * LimbBase + a[i]) % 10

Div10(a) == [i \in DOMAIN a |-> (Rem10(a, i + 1) * LimbBase + a[i]) \div 10]

\* Carry into limb i of a * 10 + d.
RECURSIVE MulCarry(_, _, _)
MulCarry(a, d, i) == IF i = 1 THEN d ELSE (a[i-1] * 10 + MulCarry(a, d, i-1)) \div LimbBase

MulAdd10(a, d) == [i \in DOMAIN a |-> (a[i] * 10 + MulCarry(a, d, i)) % LimbBase]

RECURSIVE MagToString(_)
MagToString(m) ==
    IF IsZeroMag(Div10(m)) THEN <<DigitChars[Rem10(m, 1) + 1]>>
    ELSE Append(MagToString(Div10(m)), DigitChars[Rem10(m, 1) + 1])

\* impl Display for Decimal, scale 0.
DecimalToString(x) == IF x.neg THEN <<"-">> \o MagToString(x.mag) ELSE MagToString(x.mag)

\* The magnitude written by the first n characters of ds, or Err when a
\* character is no digit or the number needs more than 96 bits.
RECURSIVE ParseMag(_, _)
ParseMag(ds, n) ==
    IF n = 0 THEN Ok(SmallMag(0))
    ELSE LET prev == ParseMag(ds, n - 1)
         IN  IF ~IsDigit(ds[n], 10) \/ prev.kind # "Ok" THEN Err("decimal")
             ELSE IF MulCarry(prev.val, DigitVal(ds[n]), NumLimbs + 1) # 0
                 THEN Err("decimal")
             ELSE Ok(MulAdd10(prev.val, DigitVal(ds[n])))

\* impl FromStr for Decimal.
DecimalFromStr(s) ==
    LET neg == Len(s) > 0 /\ s[1] = "-"
        ds == IF neg THEN Tail(s) ELSE s
        mag == ParseMag(ds, Len(ds))
    IN  IF Len(ds) = 0 \/ mag.kind # "Ok" THEN Err("decimal")
        ELSE Ok(Dec(neg, mag.val))

RECURSIVE NatToString(_, _)
NatToString(n, base) ==
    IF n < base THEN <<DigitChars[n + 1]>>
    ELSE Append(NatToString(n \div base, base), DigitChars[(n % base) + 1])

RECURSIVE ParseNat(_, _, _)
ParseNat(s, n, base) ==
    IF n = 0 THEN 0 ELSE ParseNat(s, n - 1, base) * base + DigitVal(s[n])

NatFromStr(s, base) ==
    IF Len(s) = 0 \/ \E i \in 1..Len(s) : ~IsDigit(s[i], base) THEN Err("number")
    ELSE Ok(ParseNat(s, Len(s), base))

\* A DateTime<Utc> is a count of ticks, written in decimal.
DateTimeToString(t) == NatToString(t, 10)
DateTimeFromStr(s) == NatFromStr(s, 10)

\* A Uuid is shown by one of its bytes, written as two lower-case hex digits.
UuidToString(u) == <<DigitChars[(u \div 16) + 1], DigitChars[(u % 16) + 1]>>
UuidFromStr(s) == IF Len(s) # 2 THEN Err("uuid") ELSE NatFromStr(s, 16)

(***************************************************************************)
(* The JSON form of the serde derives: enums are externally tagged with    *)
(* renamed variants (lib.rs 19-20, 28-29, 51-52); PositionIntent is an     *)
(* object keyed by field name, its Option fields skipped when None         *)
(* (lib.rs 142-170).                                                       *)
(***************************************************************************)
JString(s) == [t |-> "string", s |-> s]
JObject(members) == [t |-> "object", members |-> members]
JNull == [t |-> "null"]

\* rename_all = "snake_case" on AmountSpec and UpdatePolicy,
\* rename_all = "lowercase" on TickerSpec.
AmountTag(variant) ==
    CASE variant = "Dollars" -> "dollars"
      [] variant = "Shares" -> "shares"
      [] variant = "Percent" -> "percent"

PolicyName(policy) ==
    CASE policy = "Retain" -> <<"r", "e", "t", "a", "i", "n">>
      [] policy = "RetainLong" -> <<"r", "e", "t", "a", "i", "n", "_", "l", "o", "n", "g">>
      [] policy = "RetainShort" -> <<"r", "e", "t", "a", "i", "n", "_", "s", "h", "o", "r", "t">>
      [] policy = "Update" -> <<"u", "p", "d", "a", "t", "e">>

ZeroName == <<"z", "e", "r", "o">>
AllName == <<"a", "l", "l">>

AmountToJson(a) ==
    IF a.variant = "Zero" THEN JString(ZeroName)
    ELSE JObject([k \in {AmountTag(a.variant)} |-> JString(DecimalToString(a.payload))])

TickerToJson(t) ==
    IF t.variant = "All" THEN JString(AllName)
    ELSE JObject([k \in {"ticker"} |-> JString(t.name)])

PolicyToJson(p) == JString(PolicyName(p))

RequiredKeys == {"id", "strategy", "timestamp", "ticker", "amount", "update_policy"}
OptionalKeys == {"sub_strategy", "decision_price", "limit_price", "stop_price",
                 "before", "after"}

\* No skip_serializing_if: every field is written.
SerializedKeysAll(intent) == RequiredKeys \cup OptionalKeys

\* skip_serializing_if = "Option::is_none" on every Option field.
SerializedKeys(intent) == RequiredKeys \cup {k \in OptionalKeys : intent[k].some}

FieldToJson(intent, k) ==
    CASE k = "id" -> JString(UuidToString(intent.id))
      [] k = "strategy" -> JString(intent.strategy)
      [] k = "timestamp" -> JString(DateTimeToString(intent.timestamp))
      [] k = "ticker" -> TickerToJson(intent.ticker)
      [] k = "amount" -> AmountToJson(intent.amount)
      [] k = "update_policy" -> PolicyToJson(intent.update_policy)
      [] k \in OptionalKeys /\ ~intent[k].some -> JNull
      [] k = "sub_strategy" -> JString(intent.sub_strategy.val)
      [] k \in {"decision_price", "limit_price", "stop_price"} ->
            JString(DecimalToString(intent[k].val))
      [] k \in {"before", "after"} -> JString(DateTimeToString(intent[k].val))

\* serde_json::to_string(&intent).
to_json(intent) == JObject([k \in SerializedKeys(intent) |-> FieldToJson(intent, k)])

\* The decoders give Ok(value) or Err(what).
StringFromJson(j) == IF j.t = "string" THEN Ok(j.s) ELSE Err("string")

DecimalFromJson(j) == IF j.t = "string" THEN DecimalFromStr(j.s) ELSE Err("decimal")

DateTimeFromJson(j) == IF j.t = "string" THEN DateTimeFromStr(j.s) ELSE Err("datetime")

UuidFromJson(j) == IF j.t = "string" THEN UuidFromStr(j.s) ELSE Err("uuid")

AmountVariant(tag) ==
    CASE tag = "dollars" -> "Dollars"
      [] tag = "shares" -> "Shares"
      [] tag = "percent" -> "Percent"

AmountFromJson(j) ==
    IF j.t = "string" THEN (IF j.s = ZeroName THEN Ok(Zero) ELSE Err("amount"))
    ELSE IF j.t = "object" /\ Cardinality(DOMAIN j.members) = 1
        THEN LET k == CHOOSE x \in DOMAIN j.members : TRUE
                 d == DecimalFromJson(j.members[k])
             IN  IF k \in {"dollars", "shares", "percent"} /\ d.kind = "Ok"
                     THEN Ok(Numeric(AmountVariant(k), d.val))
                 ELSE Err("amount")
    ELSE Err("amount")

TickerFromJson(j) ==
    IF j.t = "string" THEN (IF j.s = AllName THEN Ok(All) ELSE Err("ticker"))
    ELSE IF j.t = "object" /\ DOMAIN j.members = {"ticker"}
            /\ j.members["ticker"].t = "string"
        THEN Ok(Ticker(j.members["ticker"].s))
    ELSE Err("ticker")

PolicyFromJson(j) ==
    IF j.t = "string" /\ \E p \in UpdatePolicies : PolicyName(p) = j.s
        THEN Ok(CHOOSE p \in UpdatePolicies : PolicyName(p) = j.s)
    ELSE Err("update_policy")

\* The JSON value of key k; a missing key reads as null, as for Option fields.
Member(m, k) == IF k \in DOMAIN m THEN m[k] ELSE JNull

\* An Option field: null is None, anything else is Some of the decoded
\* value r of j.
OptionFromJson(j, r) ==
    IF j.t = "null" THEN Ok(None)
    ELSE IF r.kind = "Ok" THEN Ok(Some(r.val))
    ELSE r

\* serde_json::from_str::<PositionIntent>.
from_json(j) ==
    IF j.t # "object" THEN Err("serde")
    ELSE IF ~(RequiredKeys \subseteq DOMAIN j.members) THEN Err("serde")
    ELSE LET m == j.members
             f == [id |-> UuidFromJson(m["id"]),
                   strategy |-> StringFromJson(m["strategy"]),
                   sub_strategy |->
                       OptionFromJson(Member(m, "sub_strategy"),
                                      StringFromJson(Member(m, "sub_strategy"))),
                   timestamp |-> DateTimeFromJson(m["timestamp"]),
                   ticker |-> TickerFromJson(m["ticker"]),
                   amount |-> AmountFromJson(m["amount"]),
                   update_policy |-> PolicyFromJson(m["update_policy"]),
                   decision_price |->
                       OptionFromJson(Member(m, "decision_price"),
                                      DecimalFromJson(Member(m, "decision_price"))),
                   limit_price |->
                       OptionFromJson(Member(m, "limit_price"),
                                      DecimalFromJson(Member(m, "limit_price"))),
                   stop_price |->
                       OptionFromJson(Member(m, "stop_price"),
                                      DecimalFromJson(Member(m, "stop_price"))),
                   before |->
                       OptionFromJson(Member(m, "before"),
                                      DateTimeFromJson(Member(m, "before"))),
                   after |->
                       OptionFromJson(Member(m, "after"),
                                      DateTimeFromJson(Member(m, "after")))]
         IN  IF \E k \in DOMAIN f : f[k].kind # "Ok" THEN Err("serde")
             ELSE Ok([k \in DOMAIN f |-> f[k].val])

\* derive(PartialEq) for PositionIntent.
IntentEq(a, b) ==
    /\ a.id = b.id
    /\ a.strategy = b.strategy
    /\ a.sub_strategy = b.sub_strategy
    /\ a.timestamp = b.timestamp
    /\ a.ticker = b.ticker
    /\ AmountEq(a.amount, b.amount)
    /\ a.update_policy = b.update_policy
    /\ OptDecimalEq(a.decision_price, b.decision_price)
    /\ OptDecimalEq(a.limit_price, b.limit_price)
    /\ OptDecimalEq(a.stop_price, b.stop_price)
    /\ a.before = b.before
    /\ a.after = b.after

(***************************************************************************)
(* Builder inputs.                                                         *)
(***************************************************************************)
MaxPrice == 1
MaxTime == 1

Strategies == {<<"A">>}
SubStrategies == {<<"B">>}
Tickers == {Ticker(<<"A", "A", "P", "L">>), All}
Prices == {DecimalNew(n) : n \in 1..MaxPrice}
BuilderAmounts ==
    {Dollars(DecimalNew(1)), Shares(Dec(FALSE, TopMag(0))), Percent(Dec(TRUE, TopMag(0))), Zero}
Times == 0..MaxTime
Uuids == {171}
Clock == {MaxTime + 10}

NoJson == [t |-> "none"]

NoCalls(strategy, ticker, amount) ==
    [args |-> [strategy |-> strategy, ticker |-> ticker, amount |-> amount],
     last |-> [sub_strategy |-> None, decision_price |-> None, limit_price |-> None,
               stop_price |-> None, before |-> None, after |-> None,
               update_policy |-> None]]

(***************************************************************************)
(* The merge program: one merge of (left, right) and one of (right, left). *)
(***************************************************************************)
IdleBuilder ==
    /\ builder = PositionIntentBuilder(<<"A">>, All, Zero)
    /\ state = "Building"
    /\ outcome = NoResult
    /\ encoded = NoJson
    /\ decoded = NoResult
    /\ calls = NoCalls(<<"A">>, All, Zero)

InitMerge ==
    /\ left \in AmountSpecs
    /\ right \in AmountSpecs
    /\ merged = NoResult
    /\ swapped = NoResult
    /\ IdleBuilder

Merge ==
    /\ merged = NoResult
    /\ merged' = merge(left, right)
    /\ UNCHANGED <<left, right, swapped, builderVars>>

MergeSwapped ==
    /\ swapped = NoResult
    /\ swapped' = merge(right, left)
    /\ UNCHANGED <<left, right, merged, builderVars>>

NextMerge == Merge \/ MergeSwapped

SpecMerge == InitMerge /\ [][NextMerge]_vars

(***************************************************************************)
(* The builder program: builder(..), setters in any order, build(), then   *)
(* the intent is serialized and deserialized.                              *)
(***************************************************************************)
InitBuilder ==
    /\ \E s \in Strategies, t \in Tickers, a \in BuilderAmounts :
          /\ builder = PositionIntentBuilder(s, t, a)
          /\ calls = NoCalls(s, t, a)
    /\ state = "Building"
    /\ outcome = NoResult
    /\ encoded = NoJson
    /\ decoded = NoResult
    /\ left = Zero
    /\ right = Zero
    /\ merged = NoResult
    /\ swapped = NoResult

SetSubStrategy ==
    /\ CanCall(state)
    /\ \E s \in SubStrategies :
          /\ builder' = sub_strategy(builder, s)
          /\ calls' = [calls EXCEPT !.last.sub_strategy = Some(s)]
    /\ UNCHANGED <<state, outcome, encoded, decoded, mergeVars>>

SetDecisionPrice ==
    /\ CanCall(state)
    /\ \E p \in Prices :
          /\ builder' = decision_price(builder, p)
          /\ calls' = [calls EXCEPT !.last.decision_price = Some(p)]
    /\ UNCHANGED <<state, outcome, encoded, decoded, mergeVars>>

SetLimitPrice ==
    /\ CanCall(state)
    /\ \E p \in Prices :
          /\ builder' = limit_price(builder, p)
          /\ calls' = [calls EXCEPT !.last.limit_price = Some(p)]
    /\ UNCHANGED <<state, outcome, encoded, decoded, mergeVars>>

SetStopPrice ==
    /\ CanCall(state)
    /\ \E p \in Prices :
          /\ builder' = stop_price(builder, p)
          /\ calls' = [calls EXCEPT !.last.stop_price = Some(p)]
    /\ UNCHANGED <<state, outcome, encoded, decoded, mergeVars>>

SetBefore ==
    /\ CanCall(state)
    /\ \E t \in Times :
          /\ builder' = before(builder, t)
          /\ calls' = [calls EXCEPT !.last.before = Some(t)]
    /\ UNCHANGED <<state, outcome, encoded, decoded, mergeVars>>

SetAfter ==
    /\ CanCall(state)
    /\ \E t \in Times :
          /\ builder' = after(builder, t)
          /\ calls' = [calls EXCEPT !.last.after = Some(t)]
    /\ UNCHANGED <<state, outcome, encoded, decoded, mergeVars>>

SetUpdatePolicy ==
    /\ CanCall(state)
    /\ \E p \in UpdatePolicies :
          /\ builder' = update_policy(builder, p)
          /\ calls' = [calls EXCEPT !.last.update_policy = Some(p)]
    /\ UNCHANGED <<state, outcome, encoded, decoded, mergeVars>>

Build ==
    /\ CanCall(state)
    /\ \E id \in Uuids, now \in Clock : outcome' = build(builder, id, now)
    /\ state' = "Finalized"
    /\ UNCHANGED <<builder, calls, encoded, decoded, mergeVars>>

Serialize ==
    /\ state = "Finalized"
    /\ outcome.kind = "Ok"
    /\ encoded = NoJson
    /\ encoded' = to_json(outcome.val)
    /\ UNCHANGED <<builder, state, outcome, calls, decoded, mergeVars>>

Deserialize ==
    /\ encoded # NoJson
    /\ decoded = NoResult
    /\ decoded' = from_json(encoded)
    /\ UNCHANGED <<builder, state, outcome, calls, encoded, mergeVars>>

NextBuilder ==
    \/ SetSubStrategy
    \/ SetDecisionPrice
    \/ SetLimitPrice
    \/ SetStopPrice
    \/ SetBefore
    \/ SetAfter
    \/ SetUpdatePolicy
    \/ Build
    \/ Serialize
    \/ Deserialize

SpecBuilder == InitBuilder /\ [][NextBuilder]_vars

(***************************************************************************)
(* Properties of merge, stated for SpecMerge.                              *)
(***************************************************************************)
SameNumericVariant == left.variant = right.variant /\ left.variant \in NumericVariants

\* The sum of two decimals as a number, on magnitudes one limb wider than a
\* Decimal so that nothing is lost.
Widen(x) == Dec(x.neg, [i \in 1..(NumLimbs + 1) |-> IF i <= NumLimbs THEN x.mag[i] ELSE 0])

IsExactSum(x, y, z) == DecimalEq(Widen(z), SignedAdd(Widen(x), Widen(y)))

\* C1: merging two operands of the same numeric variant returns Ok of that
\* variant whose payload is the sum x + y, for every pair of decimals.
C1_SameVariantSum ==
    (merged # NoResult /\ SameNumericVariant) =>
        /\ merged.kind = "Ok"
        /\ merged.val.variant = left.variant
        /\ IsExactSum(left.payload, right.payload, merged.val.payload)

\* C2: Zero is a two-sided identity of merge: merge(Zero, v) = Ok(v) and
\* merge(v, Zero) = Ok(v) with v unchanged, and merge never returns an error
\* when an operand is Zero.
C2_ZeroIdentity ==
    /\ (merged # NoResult /\ left = Zero) => merged = Ok(right)
    /\ (merged # NoResult /\ right = Zero) => merged = Ok(left)
    /\ (swapped # NoResult /\ right = Zero) => swapped = Ok(left)
    /\ (swapped # NoResult /\ left = Zero) => swapped = Ok(right)

C2_Witness ==
    /\ merged # NoResult
    /\ swapped # NoResult
    /\ left = Zero
    /\ right = Shares(Dec(TRUE, TopMag(0)))

\* C3: merge returns Err(IncompatibleAmountError(left, right)), carrying its
\* two operands unchanged and in call order, exactly when both operands are
\* non-Zero and of differing variants.
C3_IncompatibleExactly ==
    merged # NoResult =>
        LET differing == /\ left.variant # "Zero"
                         /\ right.variant # "Zero"
                         /\ left.variant # right.variant
        IN  /\ differing =>
                /\ merged.kind = "Err"
                /\ merged.err.error = "IncompatibleAmountError"
                /\ merged.err.left = left
                /\ merged.err.right = right
            /\ ~differing => merged.kind # "Err"

C3_Witness ==
    /\ merged.kind = "Err"
    /\ left.variant = "Percent"
    /\ right.variant = "Dollars"
    /\ left.payload # right.payload

\* C7: merge is total: for every pair of operands, payloads at the extremes
\* of the decimal range included, it returns Ok or Err and never panics.
C7_MergeTotal == merged # NoResult => merged.kind \in {"Ok", "Err"}

\* C10: merge is commutative by case: merge(a, b) is Ok iff merge(b, a) is
\* Ok, two Ok results are equal, and when both fail both fail with
\* IncompatibleAmountError carrying the same operands in swapped order.
C10_CommutativeByCase ==
    (merged # NoResult /\ swapped # NoResult) =>
        /\ merged.kind = "Ok" <=> swapped.kind = "Ok"
        /\ merged.kind = "Ok" => AmountEq(merged.val, swapped.val)
        /\ merged.kind # "Ok" =>
            /\ merged.kind = "Err"
            /\ swapped.kind = "Err"
            /\ merged.err.error = "IncompatibleAmountError"
            /\ swapped.err.error = "IncompatibleAmountError"
            /\ merged.err.left = swapped.err.right
            /\ merged.err.right = swapped.err.left

(***************************************************************************)
(* Properties of the builder, stated for SpecBuilder.                      *)
(***************************************************************************)
\* C4: build returns Err(InvalidBeforeAfter(before, after)) whenever both are
\* set and before < after, whatever the ticker and amount (the window check
\* comes first); otherwise it never returns InvalidBeforeAfter.
C4_WindowCheck ==
    state = "Finalized" =>
        LET early == /\ builder.before.some
                     /\ builder.after.some
                     /\ builder.before.val < builder.after.val
        IN  /\ early =>
                /\ outcome.kind = "Err"
                /\ outcome.err.error = "InvalidBeforeAfter"
                /\ outcome.err.before = builder.before.val
                /\ outcome.err.after = builder.after.val
            /\ ~early => ~(outcome.kind = "Err" /\ outcome.err.error = "InvalidBeforeAfter")

C4_Witness ==
    /\ state = "Finalized"
    /\ builder.ticker = All
    /\ builder.amount.variant = "Dollars"
    /\ builder.before = Some(0)
    /\ builder.after = Some(1)
    /\ outcome.kind = "Err"

Recorded(r) ==
    /\ r.strategy = calls.args.strategy
    /\ r.ticker = calls.args.ticker
    /\ r.amount = calls.args.amount
    /\ \A k \in OptionalKeys : r[k] = calls.last[k]
    /\ r.update_policy =
          IF calls.last.update_policy.some THEN calls.last.update_policy.val ELSE "Update"

C6_SettersRecorded ==
    /\ Recorded(builder)
    /\ outcome.kind = "Ok" => Recorded(outcome.val)

C6_Witness ==
    /\ outcome.kind = "Ok"
    /\ \A k \in OptionalKeys : outcome.val[k].some
    /\ outcome.val.before = Some(1)
    /\ outcome.val.after = Some(0)
    /\ outcome.val.update_policy = "RetainShort"

\* C8: a builder is Building until a single build call makes it Finalized
\* with an outcome that is an intent or an error; after that no setter and no
\* second build applies to it and its outcome never changes.
C8_BuilderConsumed ==
    /\ [](/\ state \in {"Building", "Finalized"}
          /\ state = "Building" => outcome = NoResult
          /\ state = "Finalized" => outcome.kind \in {"Ok", "Err"})
    /\ [][state = "Finalized" =>
            /\ state' = "Finalized"
            /\ builder' = builder
            /\ outcome' = outcome]_vars

C8_Witness ==
    /\ state = "Finalized"
    /\ outcome.kind = "Err"
    /\ outcome.err = InvalidCombination

\* C9: decoding the encoded form of a built intent gives an intent equal to
\* the original, which encodes to the same form; an optional field is in the
\* encoded form iff it is set.
C9_RoundTrip ==
    /\ encoded # NoJson =>
          \A k \in OptionalKeys : k \in DOMAIN encoded.members <=> outcome.val[k].some
    /\ decoded # NoResult =>
          /\ decoded.kind = "Ok"
          /\ IntentEq(decoded.val, outcome.val)
          /\ to_json(decoded.val) = encoded

C9_Witness ==
    /\ decoded.kind = "Ok"
    /\ outcome.val.sub_strategy.some
    /\ ~outcome.val.limit_price.some
    /\ outcome.val.before.some
    /\ outcome.val.amount.variant = "Percent"

====
